---- MODULE Spec2Model ----
(***************************************************************************)
(* A model of media_toolkit.py: the threaded job runner (run_threaded),    *)
(* the yt-dlp download helpers, the conversion dispatch (convert_generic)  *)
(* and the MainApp handlers that submit jobs and change the settings.      *)
(*                                                                         *)
(* Text values (line-edit contents, paths, settings strings) are sequences *)
(* of tokens; the token " " is a blank, so that str.strip() is computed.   *)
(* Emoji prefixes of the program's messages are written OK / ERR.          *)
(***************************************************************************)
EXTENDS Integers, Sequences, FiniteSets, TLC

VARIABLES yt_dlp, Image, pypandoc, settings, hostUp, jobs, lastCall

vars == <<yt_dlp, Image, pypandoc, settings, hostUp, jobs, lastCall>>

(* ------------------------------ bounds --------------------------------- *)
MaxJobs == 2
MaxHooks == 2

(* ------------------------------ texts ---------------------------------- *)
None == <<>>

RECURSIVE LStrip(_)
LStrip(s) == IF s # <<>> /\ Head(s) = " " THEN LStrip(Tail(s)) ELSE s

RECURSIVE RStrip(_)
RStrip(s) ==
    IF s # <<>> /\ s[Len(s)] = " " THEN RStrip(SubSeq(s, 1, Len(s) - 1)) ELSE s

Strip(s) == RStrip(LStrip(s))

\* Python's  a or b  on strings
Or(a, b) == IF a # <<>> THEN a ELSE b

Getcwd == <<"cwd">>

(* ----------------------------- settings -------------------------------- *)
DEFAULT_SETTINGS == [ffmpeg_path |-> <<>>, default_output |-> <<"Downloads">>]

Folders == {<<"A">>}

ffmpeg_exec(s) ==
    LET p == Strip(s.ffmpeg_path)
    IN  IF p # <<>> THEN p \o <<"/", "ffmpeg">> ELSE <<"ffmpeg">>

(* ------------------------------ events --------------------------------- *)
LogLine(prefix, detail) == [type |-> "log", text |-> <<prefix, detail>>, pct |-> -1]
Progress(p) == [type |-> "progress", text |-> <<"", "">>, pct |-> p]

(* --------------------------- file system ------------------------------- *)
\* the files that exist on disk (os.path.isfile), by name
ExistingFiles == {"photo.png", "clip.mp4", "song.mp3", "notes.txt", "blob.xyz"}

Basename(path) == IF path = <<>> THEN "" ELSE path[Len(path)]
Dirname(path) == IF Len(path) >= 3 THEN SubSeq(path, 1, Len(path) - 2) ELSE <<>>
IsFile(path) == path # <<>> /\ Basename(path) \in ExistingFiles

\* os.path.splitext on a file name: <<base, extension>>
Splitext(name) ==
    CASE name = "photo.png"   -> <<"photo", ".png">>
      [] name = "clip.mp4"    -> <<"clip", ".mp4">>
      [] name = "song.mp3"    -> <<"song", ".mp3">>
      [] name = "notes.txt"   -> <<"notes", ".txt">>
      [] name = "blob.xyz"    -> <<"blob", ".xyz">>
      [] name = "missing.mp4" -> <<"missing", ".mp4">>
      [] OTHER                -> <<name, "">>

\* mimetypes.guess_type: <<major, minor>> from the extension, None when unknown
guess_type(path) ==
    LET ext == Splitext(Basename(path))[2]
    IN  CASE ext = ".png" -> <<"image", "png">>
          [] ext = ".mp4" -> <<"video", "mp4">>
          [] ext = ".mp3" -> <<"audio", "mpeg">>
          [] ext = ".txt" -> <<"text", "plain">>
          [] OTHER        -> None

\* mime and mime.startswith(prefix), for a prefix that is a whole major type
StartsWith(mime, prefix) == mime # None /\ mime[1] = prefix

\* str.lower() on a target format
Lower(fmt) ==
    CASE fmt = "PDF" -> "pdf"
      [] fmt = "MP3" -> "mp3"
      [] OTHER       -> fmt

(* -------------------------- yt-dlp helpers ----------------------------- *)
\* float() of a percent string with "%" removed; a second component FALSE
\* stands for the ValueError float() raises
Float(tokens) ==
    CASE tokens = <<"50.0">>  -> <<50, TRUE>>
      [] tokens = <<"100.0">> -> <<100, TRUE>>
      [] OTHER                -> <<0, FALSE>>

Replace(s, old) == SelectSeq(s, LAMBDA t : t # old)

p_hook(events, d) ==
    IF d.status = "downloading"
    THEN LET p == Replace(Strip(d.percent_str), "%")
             f == Float(p)
         IN  events \o << Progress(IF f[2] THEN f[1] ELSE 0),
                          LogLine("Downloading: ", d.filename) >>
    ELSE IF d.status = "finished"
    THEN events \o << Progress(100), LogLine("Merging/processing...", "") >>
    ELSE events

NoOpts ==
    [format |-> "", postprocessor |-> "", merge_output_format |-> "",
     ffmpeg_location |-> None, noplaylist |-> FALSE, progress_hooks |-> FALSE,
     cookiefile |-> None, outtmpl |-> None]

build_ydl_opts_for_download(outdir, fmt, emitter, cookiefile, s) ==
    LET base == [NoOpts EXCEPT !.outtmpl = outdir,
                               !.progress_hooks = emitter,
                               !.cookiefile = cookiefile,
                               !.ffmpeg_location = Or(s.ffmpeg_path, None)]
    IN  IF fmt = "mp3"
        THEN [base EXCEPT !.format = "bestaudio/best",
                          !.postprocessor = "FFmpegExtractAudio:mp3"]
        ELSE IF fmt = "mp4"
        THEN [base EXCEPT !.format = "bestvideo+bestaudio/best",
                          !.merge_output_format = "mp4"]
        ELSE [base EXCEPT !.format = "best"]

(* ------------------------ conversion helpers --------------------------- *)
DocTargets == {"pdf", "docx", "txt", "md", "rtf"}

\* (a dispatch that forgets "and pypandoc")
convert_generic_adapter_unchecked(mime, target_format, pandoc) ==
    IF StartsWith(mime, "image")
    THEN "convert_image_with_pillow"
    ELSE IF Lower(target_format) \in DocTargets
    THEN "convert_document_with_pandoc"
    ELSE "convert_with_ffmpeg_cmd"

\* (a dispatch that tests the document targets before the image type)
convert_generic_adapter_swapped(mime, target_format, pandoc) ==
    IF Lower(target_format) \in DocTargets /\ pandoc
    THEN "convert_document_with_pandoc"
    ELSE IF StartsWith(mime, "image")
    THEN "convert_image_with_pillow"
    ELSE "convert_with_ffmpeg_cmd"

\* the branch convert_generic takes: the one adapter function it calls
convert_generic_adapter(mime, target_format, pandoc) ==
    IF StartsWith(mime, "image")
    THEN "convert_image_with_pillow"
    ELSE IF Lower(target_format) \in DocTargets /\ pandoc
    THEN "convert_document_with_pandoc"
    ELSE IF StartsWith(mime, "video") \/ StartsWith(mime, "audio")
    THEN "convert_with_ffmpeg_cmd"
    ELSE "convert_with_ffmpeg_cmd"

\* what an adapter call can end in: "ok" or the text of the exception
AdapterOutcomes(adapter, pillow, pandoc) ==
    CASE adapter = "convert_image_with_pillow" ->
            IF pillow THEN {"ok", "cannot identify image file"}
            ELSE {"Pillow is not installed (pip install Pillow)"}
      [] adapter = "convert_document_with_pandoc" ->
            IF pandoc THEN {"ok", "Pandoc died with exitcode"}
            ELSE {"pypandoc not installed or pandoc not available"}
      [] adapter = "convert_with_ffmpeg_cmd" ->
            {"ok", "CalledProcessError: ffmpeg returned non-zero exit status",
             "FileNotFoundError: No such file or directory: ffmpeg"}
      [] adapter = "yt_dlp" ->
            {"ok", "DownloadError"}

(* ------------------------------- jobs ---------------------------------- *)
\* A job is one run_threaded call: the target, its arguments, and the state
\* of its thread.  pc: "pending" (thread started, target not yet running),
\* "running" (inside the adapter), "done" (target returned), "raised" (the
\* target raised and wrapper printed it), "crashed" (an exception left the
\* thread).  submitted is the settings at the time of the call.
NewJob(kind, arg, outdir, outfile, fmt, emitter, cookiefile, s) ==
    [kind |-> kind, arg |-> arg, outdir |-> outdir, outfile |-> outfile,
     fmt |-> fmt, emitter |-> emitter, cookiefile |-> cookiefile,
     on_done |-> FALSE, pc |-> "pending", result |-> None, events |-> <<>>,
     opts |-> NoOpts, attempts |-> <<>>, tool |-> None, usedOutdir |-> None,
     hooks |-> 0, delivered |-> 0, printed |-> "", submitted |-> s]

\* run_threaded.wrapper, the target returned result
wrapper_return(job, result) ==
    [job EXCEPT !.result = result,
                !.delivered = IF job.on_done THEN @ + 1 ELSE @,
                !.pc = "done"]

\* (a wrapper with no try/except: the exception leaves the thread)
wrapper_except_uncaught(job, e) ==
    [job EXCEPT !.pc = "crashed", !.printed = ""]

\* run_threaded.wrapper, the target raised e
wrapper_except(job, e) ==
    [job EXCEPT !.pc = "raised", !.printed = e]

Emit(job, evs) == IF job.emitter THEN job.events \o evs ELSE job.events

(* yt_download up to the call of yt-dlp *)
yt_download_begin(job, s) ==
    IF Strip(job.arg) = <<>>
    THEN wrapper_return(job, <<"ERR No URL provided", "">>)
    ELSE LET outdir == Or(Or(job.outdir, s.default_output), Getcwd)
         IN  [job EXCEPT
                !.usedOutdir = outdir,
                !.events = Emit(job, << LogLine("Starting download: ", job.fmt),
                                        Progress(0) >>),
                !.opts = build_ydl_opts_for_download(
                             outdir, job.fmt, job.emitter, job.cookiefile, s),
                !.attempts = Append(@, "yt_dlp"),
                !.pc = "running"]

\* (a success path that leaves the last percentage to the progress hook)
yt_download_end_no_final_progress(job, outcome) ==
    IF outcome = "ok"
    THEN wrapper_return(
             [job EXCEPT !.events = Emit(job, << LogLine("Saved: ", "filename") >>)],
             <<"OK Download complete: ", "url">>)
    ELSE wrapper_return(
             [job EXCEPT !.events = Emit(job, << LogLine("ERR Error: ", outcome),
                                                 Progress(0) >>)],
             <<"ERR Error: ", outcome>>)

(* yt_download from the return (or the exception) of yt-dlp on *)
yt_download_end(job, outcome) ==
    IF outcome = "ok"
    THEN wrapper_return(
             [job EXCEPT !.events = Emit(job, << LogLine("Saved: ", "filename"),
                                                 Progress(100) >>)],
             <<"OK Download complete: ", "url">>)
    ELSE wrapper_return(
             [job EXCEPT !.events = Emit(job, << LogLine("ERR Error: ", outcome),
                                                 Progress(0) >>)],
             <<"ERR Error: ", outcome>>)

(* insta_worker, a closure of start_insta_download: em is never None *)
insta_worker_begin(job, s) ==
    [job EXCEPT
       !.usedOutdir = job.outdir,
       !.events = @ \o << LogLine("Starting Instagram download: ", "url") >>,
       !.opts = [build_ydl_opts_for_download(
                     job.outdir, "mp4", job.emitter, job.cookiefile, s)
                 EXCEPT !.noplaylist = TRUE],
       !.attempts = Append(@, "yt_dlp"),
       !.pc = "running"]

insta_worker_end(job, outcome) ==
    IF outcome = "ok"
    THEN wrapper_return(
             [job EXCEPT !.events = @ \o << LogLine("Saved: ", "filename"),
                                            Progress(100) >>],
             <<"OK Done", "">>)
    ELSE wrapper_return(
             [job EXCEPT !.events = @ \o << LogLine("ERR Error: ", outcome),
                                            Progress(0) >>],
             <<"ERR Error: ", outcome>>)

(* convert_generic up to the call of the adapter it dispatches to *)
convert_generic_begin(job, s, pandoc) ==
    LET adapter == convert_generic_adapter(guess_type(job.arg), job.fmt, pandoc)
    IN  [job EXCEPT
           !.usedOutdir = job.outdir,
           !.events = Emit(job, << LogLine("Converting ", Basename(job.arg)) >>),
           !.attempts = Append(@, adapter),
           !.tool = IF adapter = "convert_with_ffmpeg_cmd"
                    THEN ffmpeg_exec(s) ELSE None,
           !.pc = "running"]

(* convert_generic from the adapter's return or exception on: <<job, res>> *)
convert_generic_end(job, outcome) ==
    IF outcome = "ok"
    THEN << [job EXCEPT !.events = Emit(job, << LogLine("OK Converted: ",
                                                        job.outfile[1]) >>)],
            <<"OK Converted to ", job.fmt>> >>
    ELSE << [job EXCEPT !.events = Emit(job, << LogLine("ERR Conversion error: ",
                                                        outcome) >>)],
            <<"ERR Conversion error: ", outcome>> >>

(* convert_generic_wrapper: its first emit is outside the try *)
convert_generic_wrapper_begin(job, s, pandoc) ==
    IF ~job.emitter
    THEN wrapper_except(job, "AttributeError: NoneType has no attribute log")
    ELSE convert_generic_begin(
             [job EXCEPT !.events = @ \o << LogLine("Starting conversion: ",
                                                    Basename(job.arg)),
                                            Progress(0) >>],
             s, pandoc)

convert_generic_wrapper_end(job, outcome) ==
    LET r == convert_generic_end(job, outcome)
    IN  wrapper_return(
            [r[1] EXCEPT !.events = @ \o << Progress(80),
                                            LogLine(r[2][1], r[2][2]),
                                            Progress(100) >>],
            r[2])

(* --------------------------- initial state ----------------------------- *)
NoCall == [op |-> "", arg |-> <<>>, response |-> ""]

\* The module-level imports: without yt_dlp the import raises and the program
\* never starts; Image and pypandoc are None when their import failed.
\* settings is load_settings(): the defaults, or what an earlier run saved.
Init ==
    /\ yt_dlp \in BOOLEAN
    /\ Image \in BOOLEAN
    /\ pypandoc \in BOOLEAN
    /\ settings \in [ffmpeg_path : {<<>>} \cup Folders,
                     default_output : {DEFAULT_SETTINGS.default_output}]
    /\ hostUp = yt_dlp
    /\ jobs = <<>>
    /\ lastCall = NoCall

(* ------------------------- MainApp handlers ---------------------------- *)
\* set_ffmpeg_folder / set_default_output_folder: folder is what the dialog
\* returned (empty when cancelled).  After saving, both call
\* self.youtube_log_append, which MainApp does not define: the AttributeError
\* raised in the slot either aborts the program (PyQt5 >= 5.5, qFatal) or is
\* printed (older PyQt5); survives is which of the two the build does.
set_ffmpeg_folder(folder, survives) ==
    /\ hostUp
    /\ IF folder # <<>>
       THEN /\ settings' = [settings EXCEPT !.ffmpeg_path = folder]
            /\ hostUp' = survives
            /\ lastCall' = [op |-> "set_ffmpeg_folder", arg |-> folder,
                            response |-> "AttributeError"]
       ELSE UNCHANGED <<settings, hostUp, lastCall>>
    /\ UNCHANGED <<yt_dlp, Image, pypandoc, jobs>>

set_default_output_folder(folder, survives) ==
    /\ hostUp
    /\ IF folder # <<>>
       THEN /\ settings' = [settings EXCEPT !.default_output = folder]
            /\ hostUp' = survives
            /\ lastCall' = [op |-> "set_default_output_folder", arg |-> folder,
                            response |-> "AttributeError"]
       ELSE UNCHANGED <<settings, hostUp, lastCall>>
    /\ UNCHANGED <<yt_dlp, Image, pypandoc, jobs>>

\* (a guard that forgets os.path.isfile)
start_conversion_refuses_nonempty(infile) == infile = <<>>

\* the guards of the three start_* handlers: TRUE when the input is refused
start_youtube_download_refuses(url) == url = <<>>
start_conversion_refuses(infile) == infile = <<>> \/ ~IsFile(infile)
start_insta_download_refuses(url) == url = <<>>

\* run_threaded: start a thread for the job
run_threaded(job) == jobs' = Append(jobs, job)

start_youtube_download(urlText, fmt, outText, cookieText) ==
    LET url == Strip(urlText)
        out == Or(Or(Strip(outText), settings.default_output), Getcwd)
        cookie == Or(Strip(cookieText), None)
    IN  /\ hostUp
        /\ IF start_youtube_download_refuses(url)
           THEN /\ lastCall' = [op |-> "start_youtube_download", arg |-> urlText,
                                response |-> "ERR Please paste a URL."]
                /\ UNCHANGED jobs
           ELSE /\ run_threaded(NewJob("yt_download", url, out, None, fmt,
                                       TRUE, cookie, settings))
                /\ lastCall' = [op |-> "start_youtube_download", arg |-> urlText,
                                response |-> ""]
        /\ UNCHANGED <<yt_dlp, Image, pypandoc, settings, hostUp>>

start_conversion(inText, target, outText) ==
    LET infile == Strip(inText)
        out_folder == Or(Or(Strip(outText), Dirname(infile)),
                         settings.default_output)
        base == Splitext(Basename(infile))[1]
    IN  /\ hostUp
        /\ IF start_conversion_refuses(infile)
           THEN /\ lastCall' = [op |-> "start_conversion", arg |-> inText,
                                response |-> "ERR Select a valid input file."]
                /\ UNCHANGED jobs
           ELSE /\ run_threaded(NewJob("convert_generic_wrapper", infile,
                                       out_folder, <<base, target>>, target,
                                       TRUE, None, settings))
                /\ lastCall' = [op |-> "start_conversion", arg |-> inText,
                                response |-> ""]
        /\ UNCHANGED <<yt_dlp, Image, pypandoc, settings, hostUp>>

start_insta_download(urlText, outText, cookieText) ==
    LET url == Strip(urlText)
        out == Or(Or(Strip(outText), settings.default_output), Getcwd)
        cookie == Or(Strip(cookieText), None)
    IN  /\ hostUp
        /\ IF start_insta_download_refuses(url)
           THEN /\ lastCall' = [op |-> "start_insta_download", arg |-> urlText,
                                response |-> "ERR Paste an Instagram URL."]
                /\ UNCHANGED jobs
           ELSE /\ run_threaded(NewJob("insta_worker", url, out, None, "mp4",
                                       TRUE, cookie, settings))
                /\ lastCall' = [op |-> "start_insta_download", arg |-> urlText,
                                response |-> ""]
        /\ UNCHANGED <<yt_dlp, Image, pypandoc, settings, hostUp>>

\* run_threaded called without the GUI, with no emitter: the module-level
\* targets yt_download and convert_generic_wrapper
run_threaded_headless(kind, arg, outdir, fmt) ==
    /\ hostUp
    /\ kind \in {"yt_download", "convert_generic_wrapper"}
    /\ run_threaded(NewJob(kind, arg, outdir,
                           IF kind = "yt_download" THEN None
                           ELSE <<Splitext(Basename(arg))[1], fmt>>,
                           fmt, FALSE, None, settings))
    /\ UNCHANGED <<yt_dlp, Image, pypandoc, settings, hostUp, lastCall>>

(* --------------------------- thread steps ------------------------------ *)
\* the thread of job j enters its target and runs it up to the adapter call
Begin(j) ==
    /\ hostUp
    /\ j \in 1..Len(jobs)
    /\ jobs[j].pc = "pending"
    /\ jobs' = [jobs EXCEPT ![j] =
           CASE @.kind = "yt_download" -> yt_download_begin(@, settings)
             [] @.kind = "insta_worker" -> insta_worker_begin(@, settings)
             [] @.kind = "convert_generic_wrapper" ->
                    convert_generic_wrapper_begin(@, settings, pypandoc)]
    /\ UNCHANGED <<yt_dlp, Image, pypandoc, settings, hostUp, lastCall>>

\* yt-dlp calls the progress hook of job j with the dictionary d
Hook(j, d) ==
    /\ hostUp
    /\ j \in 1..Len(jobs)
    /\ jobs[j].pc = "running"
    /\ jobs[j].opts.progress_hooks
    /\ jobs[j].hooks < MaxHooks
    /\ jobs' = [jobs EXCEPT ![j].events = p_hook(@, d), ![j].hooks = @ + 1]
    /\ UNCHANGED <<yt_dlp, Image, pypandoc, settings, hostUp, lastCall>>

\* the adapter of job j returns or raises, and the target runs to its end
Finish(j, outcome) ==
    /\ hostUp
    /\ j \in 1..Len(jobs)
    /\ jobs[j].pc = "running"
    /\ outcome \in AdapterOutcomes(jobs[j].attempts[Len(jobs[j].attempts)],
                                   Image, pypandoc)
    /\ jobs' = [jobs EXCEPT ![j] =
           CASE @.kind = "yt_download" -> yt_download_end(@, outcome)
             [] @.kind = "insta_worker" -> insta_worker_end(@, outcome)
             [] @.kind = "convert_generic_wrapper" ->
                    convert_generic_wrapper_end(@, outcome)]
    /\ UNCHANGED <<yt_dlp, Image, pypandoc, settings, hostUp, lastCall>>

(* ------------------------------ inputs --------------------------------- *)
HookDicts ==
    [status : {"downloading"}, percent_str : {<<" ", "50.0", "%">>, <<"N/A">>},
     filename : {"filename"}]
    \cup [status : {"finished"}, percent_str : {<<>>}, filename : {"filename"}]

Outcomes ==
    UNION {AdapterOutcomes(a, p, q) :
           a \in {"convert_image_with_pillow", "convert_document_with_pandoc",
                  "convert_with_ffmpeg_cmd", "yt_dlp"},
           p \in BOOLEAN, q \in BOOLEAN}

\* several jobs side by side
UrlTexts == {<<>>, <<" ">>, <<" ", "u">>}
FileTexts == {<<>>, <<"missing.mp4">>, <<"clip.mp4", " ">>}

\* one job, every kind of input
AllUrlTexts == {<<>>, <<" ">>, <<"u">>, <<" ", "u", " ">>}
AllFileTexts ==
    {<<>>, <<" ">>, <<"missing.mp4">>, <<"photo.png">>, <<"clip.mp4">>,
     <<"d", "/", "song.mp3">>, <<"notes.txt">>, <<"blob.xyz">>}
YtFormats == {"mp4", "mp3"}
AllFormats == {"mp4", "mp3", "wav", "webm"}
ConvFormats == {"mp3", "jpg", "pdf", "txt"}
OutTexts == {<<>>, <<"X">>}
CookieTexts == {<<>>, <<"cookies.txt">>}

(* ---------------------------- specifications --------------------------- *)
\* Spec runs up to MaxJobs jobs side by side, with every library installed
\* and the settings left alone, on a few inputs of each kind.  SpecSolo runs
\* one job on every kind of input, with any of the optional libraries
\* missing and the settings handlers called at any time.
SetFfmpegFolder ==
    \E folder \in {<<>>} \cup Folders, survives \in BOOLEAN :
        set_ffmpeg_folder(folder, survives)

SetDefaultOutputFolder ==
    \E folder \in {<<>>} \cup Folders, survives \in BOOLEAN :
        set_default_output_folder(folder, survives)

Thread ==
    \E j \in 1..Len(jobs) :
        \/ Begin(j)
        \/ \E d \in {h \in HookDicts : h.status = "finished"} : Hook(j, d)
        \/ \E outcome \in Outcomes : Finish(j, outcome)

StartYoutubeDownload ==
    /\ Len(jobs) < MaxJobs
    /\ \E u \in UrlTexts : start_youtube_download(u, "mp4", <<>>, <<>>)

StartConversion ==
    /\ Len(jobs) < MaxJobs
    /\ \E f \in FileTexts : start_conversion(f, "mp3", <<>>)

StartInstaDownload ==
    /\ Len(jobs) < MaxJobs
    /\ \E u \in UrlTexts : start_insta_download(u, <<>>, <<>>)

RunThreadedHeadless ==
    /\ Len(jobs) < MaxJobs
    /\ \/ run_threaded_headless("yt_download", <<"u">>, <<>>, "mp4")
       \/ run_threaded_headless("convert_generic_wrapper", <<"clip.mp4">>,
                                <<"X">>, "mp3")

Next ==
    \/ StartYoutubeDownload
    \/ StartConversion
    \/ StartInstaDownload
    \/ RunThreadedHeadless
    \/ Thread

\* every optional library is installed
InitInstalled == Init /\ yt_dlp /\ Image /\ pypandoc

Spec == InitInstalled /\ [][Next]_vars

\* every started thread is scheduled, and every adapter call comes to an end
FairSpec ==
    /\ Spec
    /\ \A j \in 1..MaxJobs :
           /\ WF_vars(Begin(j))
           /\ WF_vars(\E outcome \in Outcomes : Finish(j, outcome))

SoloYoutubeDownload ==
    /\ jobs = <<>>
    /\ \E u \in AllUrlTexts, fmt \in YtFormats, o \in OutTexts, c \in CookieTexts :
           start_youtube_download(u, fmt, o, c)

SoloConversion ==
    /\ jobs = <<>>
    /\ \E f \in AllFileTexts, t \in ConvFormats, o \in OutTexts :
           start_conversion(f, t, o)

SoloInstaDownload ==
    /\ jobs = <<>>
    /\ \E u \in AllUrlTexts, o \in OutTexts, c \in CookieTexts :
           start_insta_download(u, o, c)

SoloHeadless ==
    /\ jobs = <<>>
    /\ \/ \E u \in AllUrlTexts, fmt \in AllFormats, o \in OutTexts :
              run_threaded_headless("yt_download", u, o, fmt)
       \/ \E f \in AllFileTexts, t \in ConvFormats :
              run_threaded_headless("convert_generic_wrapper", f, <<"X">>, t)

SoloThread ==
    \E j \in 1..Len(jobs) :
        \/ Begin(j)
        \/ \E d \in HookDicts : Hook(j, d)
        \/ \E outcome \in Outcomes : Finish(j, outcome)

NextSolo ==
    \/ SetFfmpegFolder
    \/ SetDefaultOutputFolder
    \/ SoloYoutubeDownload
    \/ SoloConversion
    \/ SoloInstaDownload
    \/ SoloHeadless
    \/ SoloThread

SpecSolo == Init /\ [][NextSolo]_vars

(* ======================= the claims: definitions ======================= *)
SuccessPrefixes == {"OK Download complete: ", "OK Converted to ", "OK Done"}
FailurePrefixes == {"ERR Error: ", "ERR Conversion error: ", "ERR No URL provided"}

Terminated(job) == job.pc \in {"done", "raised", "crashed"}
Succeeded(job) == job.pc = "done" /\ job.result # None /\ job.result[1] \in SuccessPrefixes
Failed(job) == job.pc = "done" /\ job.result # None /\ job.result[1] \in FailurePrefixes

JobIds == 1..Len(jobs)

ProgressEvents(job) == SelectSeq(job.events, LAMBDA e : e.type = "progress")
LastProgress(job) ==
    LET ps == ProgressEvents(job) IN IF ps = <<>> THEN -1 ELSE ps[Len(ps)].pct
HasProgress(job, p) == \E i \in 1..Len(job.events) : job.events[i] = Progress(p)

\* a log line that tells the observer how the job ended
SuccessLog(e) ==
    e.type = "log" /\ e.text[1] \in {"Saved: ", "OK Converted: "} \cup SuccessPrefixes
FailureLog(e) == e.type = "log" /\ e.text[1] \in FailurePrefixes
TerminalDeliveries(job) ==
    job.delivered
    + Len(SelectSeq(job.events, LAMBDA e : SuccessLog(e) \/ FailureLog(e)))

(* ------------------------------- C1 ------------------------------------ *)
\* C1: every job started through run_threaded with an observer that has ended
\* has ended Succeeded or Failed, and its terminal result reached the observer
\* exactly once (through on_done or as a terminal log line).
C1_TerminalDeliveredExactlyOnce ==
    \A j \in JobIds :
        (jobs[j].emitter /\ Terminated(jobs[j])) =>
            /\ Succeeded(jobs[j]) \/ Failed(jobs[j])
            /\ TerminalDeliveries(jobs[j]) = 1

(* ------------------------------- C2 ------------------------------------ *)
\* C2: a job that ended Failed has no Progress(100) in its event stream.
C2_NoFullProgressOnFailure ==
    \A j \in JobIds : Failed(jobs[j]) => ~HasProgress(jobs[j], 100)

(* ------------------------------- C3 ------------------------------------ *)
\* C3: a job with an observer whose adapter raised ends Failed, has a failure
\* log line carrying the error text, and its last Progress event is Progress(0).
C3_FailureEndsAtZero ==
    \A j \in JobIds :
        (jobs[j].emitter /\ Failed(jobs[j])) =>
            /\ \E i \in 1..Len(jobs[j].events) :
                   /\ FailureLog(jobs[j].events[i])
                   /\ jobs[j].events[i].text[2] = jobs[j].result[2]
            /\ LastProgress(jobs[j]) = 0

(* ------------------------------- C4 ------------------------------------ *)
\* no thread is left by an exception, and only a job whose own target raised
\* (a convert wrapper without emitter) ends "raised"
C4_NoEscape ==
    /\ hostUp
    /\ \A j \in JobIds :
           /\ jobs[j].pc # "crashed"
           /\ jobs[j].pc = "raised" =>
                  (jobs[j].kind = "convert_generic_wrapper" /\ ~jobs[j].emitter)
           /\ jobs[j].pc = "done" => (Succeeded(jobs[j]) \/ Failed(jobs[j]))

C4_OthersUntouched ==
    \A j \in JobIds : \A k \in JobIds :
        (k # j /\ jobs'[j] # jobs[j]) => jobs'[k] = jobs[k]

\* C4: with several jobs running, no exception leaves a job's thread and the
\* host keeps running; a step of one job changes no other job's state or
\* event stream; and every job's thread comes to its end, with the job's own
\* outcome, whatever the other jobs do.
C4_JobIsolation ==
    /\ []C4_NoEscape
    /\ [][C4_OthersUntouched]_vars
    /\ \A j \in 1..MaxJobs :
           (j <= Len(jobs)) ~> (j <= Len(jobs) /\ jobs[j].pc \in {"done", "raised"})

\* one job's target raised while another job ended with its own result
C4_Witness ==
    \E j \in JobIds : \E k \in JobIds :
        /\ jobs[j].pc = "raised"
        /\ jobs[k].pc = "done" /\ jobs[k].emitter /\ Succeeded(jobs[k])
        /\ Len(jobs[k].events) >= 2

(* ------------------------------- C5 ------------------------------------ *)
Blank(text) == \A i \in 1..Len(text) : text[i] = " "
NamesNoFile(text) ==
    LET words == SelectSeq(text, LAMBDA t : t # " ")
    IN  words = <<>> \/ words[Len(words)] \notin ExistingFiles

InvalidSubmit(c) ==
    \/ c.op \in {"start_youtube_download", "start_insta_download"} /\ Blank(c.arg)
    \/ c.op = "start_conversion" /\ NamesNoFile(c.arg)

ErrorMessages ==
    {"ERR Please paste a URL.", "ERR Select a valid input file.",
     "ERR Paste an Instagram URL."}

\* C5: a handler call with an empty or blank URL, or with an empty or
\* non-existent input path, answers with an error message and leaves the
\* jobs (threads, emitters, events) and the settings as they were.
C5_InvalidInputRejected ==
    [][(lastCall' # lastCall /\ InvalidSubmit(lastCall')) =>
           /\ lastCall'.response \in ErrorMessages
           /\ jobs' = jobs
           /\ settings' = settings]_vars

\* an invalid submit was refused while an earlier job was running
C5_Witness ==
    /\ InvalidSubmit(lastCall)
    /\ lastCall.response \in ErrorMessages
    /\ \E j \in JobIds : jobs[j].pc = "running"

(* ------------------------------- C6 ------------------------------------ *)
Category(mime) ==
    CASE mime = None       -> "Unknown"
      [] mime # None /\ mime[1] = "image" -> "Image"
      [] mime # None /\ mime[1] = "video" -> "Video"
      [] mime # None /\ mime[1] = "audio" -> "Audio"
      [] OTHER             -> "Document"

DocumentAllowList == {"pdf", "docx", "txt", "md", "rtf"}

\* a convert job whose convert_generic has dispatched
Dispatched(job) == job.kind = "convert_generic_wrapper" /\ job.attempts # <<>>

\* C6 as stated: a source of Unknown category goes to the audio/video adapter
\* for every target format and every availability of the other adapters.
C6_UnknownAlwaysFfmpeg ==
    \A j \in JobIds :
        (Dispatched(jobs[j]) /\ Category(guess_type(jobs[j].arg)) = "Unknown") =>
            jobs[j].attempts = <<"convert_with_ffmpeg_cmd">>

\* C6 amended: a source of Unknown category goes to the document adapter when
\* the target is in the document allow-list and the document adapter is
\* available, and to the audio/video adapter otherwise; the adapter is a
\* function of (category, target, availability).
C6_UnknownFfmpegUnlessDocument ==
    \A j \in JobIds :
        (Dispatched(jobs[j]) /\ Category(guess_type(jobs[j].arg)) = "Unknown") =>
            jobs[j].attempts =
                << IF jobs[j].fmt \in DocumentAllowList /\ pypandoc
                   THEN "convert_document_with_pandoc"
                   ELSE "convert_with_ffmpeg_cmd" >>

C6_Witness ==
    \E j \in JobIds :
        /\ Dispatched(jobs[j])
        /\ Category(guess_type(jobs[j].arg)) = "Unknown"
        /\ jobs[j].attempts = <<"convert_document_with_pandoc">>
        /\ jobs[j].pc = "done"

(* ------------------------------- C7 ------------------------------------ *)
\* the four-rule policy; capable is what rule 1 asks of the raster adapter
Policy(category, target, capable, available) ==
    IF category = "Image" /\ capable THEN "convert_image_with_pillow"
    ELSE IF target \in DocumentAllowList /\ available
    THEN "convert_document_with_pandoc"
    ELSE IF category \in {"Video", "Audio"} THEN "convert_with_ffmpeg_cmd"
    ELSE "convert_with_ffmpeg_cmd"

\* C7 as stated: convert_generic invokes exactly one adapter, the one the
\* policy gives when rule 1 asks that the raster library is installed.
C7_PolicyWithRasterAvailability ==
    \A j \in JobIds :
        Dispatched(jobs[j]) =>
            jobs[j].attempts =
                << Policy(Category(guess_type(jobs[j].arg)), jobs[j].fmt,
                          Image, pypandoc) >>

\* C7 amended: convert_generic invokes exactly one adapter: raster-image when
\* the category is Image, whether or not the raster library is installed;
\* else document when the target is in the allow-list and the document
\* adapter is available; else audio/video.
C7_PolicyByCategory ==
    \A j \in JobIds :
        Dispatched(jobs[j]) =>
            jobs[j].attempts =
                << Policy(Category(guess_type(jobs[j].arg)), jobs[j].fmt,
                          TRUE, pypandoc) >>

C7_Witness ==
    \E j \in JobIds :
        /\ Dispatched(jobs[j])
        /\ Category(guess_type(jobs[j].arg)) = "Image"
        /\ ~Image
        /\ jobs[j].attempts = <<"convert_image_with_pillow">>
        /\ jobs[j].pc = "done"

(* ------------------------------- C8 ------------------------------------ *)
HasFailureLog(job, errorText) ==
    \E i \in 1..Len(job.events) :
        FailureLog(job.events[i]) /\ job.events[i].text[2] = errorText

\* C8: a convert job that needs a missing capability (the raster library for
\* an image source, the document engine for a document target) ends Failed
\* with a log line naming it, and no other adapter is tried in its place.
C8_MissingCapabilityFailsCleanly ==
    \A j \in JobIds :
        (jobs[j].kind = "convert_generic_wrapper" /\ jobs[j].pc = "done") =>
            LET category == Category(guess_type(jobs[j].arg))
            IN  /\ (category = "Image" /\ ~Image) =>
                       /\ Failed(jobs[j])
                       /\ jobs[j].attempts = <<"convert_image_with_pillow">>
                       /\ HasFailureLog(jobs[j],
                              "Pillow is not installed (pip install Pillow)")
                /\ (category # "Image" /\ jobs[j].fmt \in DocumentAllowList
                        /\ ~pypandoc) =>
                       /\ Failed(jobs[j])
                       /\ jobs[j].attempts = <<"convert_document_with_pandoc">>
                       /\ HasFailureLog(jobs[j],
                              "pypandoc not installed or pandoc not available")

(* ------------------------------- C9 ------------------------------------ *)
\* C9: the tool location and the output directory a job uses are those of
\* the settings at the time it was submitted.
C9_SettingsAsSubmitted ==
    \A j \in JobIds :
        jobs[j].attempts # <<>> =>
            /\ jobs[j].tool # None => jobs[j].tool = ffmpeg_exec(jobs[j].submitted)
            /\ jobs[j].attempts = <<"yt_dlp">> =>
                   jobs[j].opts.ffmpeg_location = jobs[j].submitted.ffmpeg_path
            /\ jobs[j].usedOutdir =
                   Or(Or(jobs[j].outdir, jobs[j].submitted.default_output), Getcwd)

(* ------------------------------- C10 ----------------------------------- *)
AudioFormats == {"mp3", "wav"}

AudioOnlyProfile(opts) ==
    /\ opts.format = "bestaudio/best"
    /\ opts.postprocessor # ""
    /\ opts.merge_output_format = ""

MergedProfile(opts, container) ==
    /\ opts.format = "bestvideo+bestaudio/best"
    /\ opts.merge_output_format = container

\* C10: the options built for a fetch are the audio-only profile when the
\* target is an audio format, and best video+audio merged into the requested
\* container otherwise.
C10_ProfileByTarget ==
    \A j \in JobIds :
        jobs[j].attempts = <<"yt_dlp">> =>
            IF jobs[j].fmt \in AudioFormats
            THEN AudioOnlyProfile(jobs[j].opts)
            ELSE MergedProfile(jobs[j].opts, jobs[j].fmt)
(* ------------------------------- C11 ----------------------------------- *)
\* C11: a job run with no observer (no emitter) and a usable argument ends
\* with its normal outcome, Succeeded or Failed, after running its adapter,
\* and no event of it is recorded and no error is raised.
C11_HeadlessJobsComplete ==
    \A j \in JobIds :
        (~jobs[j].emitter /\ Terminated(jobs[j])) =>
            /\ jobs[j].pc = "done"
            /\ Succeeded(jobs[j]) \/ Failed(jobs[j])
            /\ jobs[j].events = <<>>
            /\ ~Blank(jobs[j].arg) => jobs[j].attempts # <<>>
(* ------------------------------- C12 ----------------------------------- *)
\* a job with an observer that ended Succeeded has a success log line and
\* its last Progress event is Progress(100)
C12_SucceededStream ==
    \A j \in JobIds :
        (jobs[j].emitter /\ Succeeded(jobs[j])) =>
            /\ \E i \in 1..Len(jobs[j].events) : SuccessLog(jobs[j].events[i])
            /\ LastProgress(jobs[j]) = 100

\* a job whose adapter returns normally ends Succeeded, and a job that has
\* ended emits nothing more
C12_SuccessStep ==
    \A j \in JobIds :
        /\ Finish(j, "ok") => Succeeded(jobs'[j])
        /\ Terminated(jobs[j]) => jobs'[j] = jobs[j]

\* C12: when a job's adapter succeeds the job ends Succeeded; with an
\* observer it emits a success log line and its last Progress event is
\* Progress(100), with no lower percentage after it, also for a fetch whose
\* progress hook reported "finished" and then went on downloading.
C12_SuccessEndsAtFull ==
    /\ []C12_SucceededStream
    /\ [][C12_SuccessStep]_vars

\* a fetch succeeded after its hook reported "finished" and then a lower
\* percentage of a further file
C12_Witness ==
    \E j \in JobIds :
        /\ jobs[j].kind = "yt_download" /\ jobs[j].emitter
        /\ Succeeded(jobs[j])
        /\ \E i \in 1..Len(jobs[j].events) : \E k \in 1..Len(jobs[j].events) :
               /\ i < k
               /\ jobs[j].events[i] = Progress(100)
               /\ jobs[j].events[k].type = "progress"
               /\ jobs[j].events[k].pct < 100
        /\ LastProgress(jobs[j]) = 100
====
